---- MODULE Spec2Model ----
(***************************************************************************)
(* Model of WEBB.py: the cache-first acquisition of one calibrated JWST    *)
(* image (cache check, retried catalog query, observation filtering,       *)
(* product listing, download, rename into the cache, error fallback) and   *)
(* the control flow of the presentation that follows it.                   *)
(*                                                                         *)
(* The script is one process per invocation.  The model follows one user's *)
(* invocations one after the other, up to MaxRuns of them, each step by    *)
(* step.  The cache directory is shared with a second, concurrent instance *)
(* of the same script, of which only the steps that read or write the      *)
(* cache directory are kept.  The remote archive and the file system calls *)
(* are nondeterministic in their outcome.                                  *)
(***************************************************************************)
EXTENDS Integers, Sequences, FiniteSets, TLC

VARIABLES COLOR_MODE, fs, st, other, f_pc, f_table, f_obs

vars == <<COLOR_MODE, fs, st, other, f_pc, f_table, f_obs>>

(* ------------------------------ bounds -------------------------------- *)

\* invocations of the script that are followed
MaxRuns == 2

\* rows of an observation table handed to the filter
MaxObs == 2

\* rows of the table a catalog query of a run returns (the run reads the
\* number of observations left and the first of them)
MaxQueryRows == 1

(* --------------------------- configuration ---------------------------- *)

PERFORM_SOURCE_DETECTION == TRUE

\* the values COLOR_MODE is edited to: the two documented ones and another
ColorModes == {"grayscale", "false_color", "rgb"}

\* display names as the words and blanks they are made of
TARGETS ==
  [SMACS     |-> [name |-> <<"SMACS", " ", "J0723.3-7327">>],
   CARINA    |-> [name |-> <<"NGC", " ", "3372">>],
   CARTWHEEL |-> [name |-> <<"ESO", " ", "350-40">>],
   PILLARS   |-> [name |-> <<"M16">>],
   STEPHAN   |-> [name |-> <<"Stephan's", " ", "Quintet">>],
   SOUTHERN  |-> [name |-> <<"NGC", " ", "7469">>],
   ORION     |-> [name |-> <<"NGC", " ", "1976">>],
   PANDORA   |-> [name |-> <<"Pandora", " ", "Cluster">>]]

\* what is typed at the prompt
Inputs == {"", " smacs", "carina", "HUBBLE"}

\* input(...).strip().upper() on the typed texts
StripUpper(s) ==
  CASE s = " smacs" -> "SMACS"
    [] s = "carina" -> "CARINA"
    [] OTHER -> s

\* ... or 'SMACS'
target_key(s) == IF StripUpper(s) = "" THEN "SMACS" ELSE StripUpper(s)

cache_dir == "cached_data"

(* The definitions marked "variant" are not the script: each is the        *)
(* definition that follows it with one slip, kept to show that the claims  *)
(* below tell the script from it.                                          *)

\* target.replace(' ', '_')
Replace(name) == [i \in 1..Len(name) |-> IF name[i] = " " THEN "_" ELSE name[i]]

\* os.path.join(cache_dir, f"{target.replace(' ', '_')}.fits")
cache_file(name) == <<cache_dir, "/">> \o Replace(name) \o <<".fits">>

\* download_manifest['Local Path'][0]
LocalPath == <<"mastDownload", "/", "JWST", "/", "product_cal.fits">>

NoPath == <<>>

max_retries == 3

initial_retry_delay == 5

\* variant: the delay is not doubled
BackoffNone(d) == d

\* retry_delay *= 2
Backoff(d) == d * 2

\* what a remote call may raise
Exceptions == {"TimeoutError", "AstroQueryTimeout", "ConnectionError"}

\* variant: the astroquery timeout is not named in the except clause
IsTimeoutBuiltin(e) == e = "TimeoutError"

\* except (TimeoutError, AstroQueryTimeout)
IsTimeout(e) == e \in {"TimeoutError", "AstroQueryTimeout"}

\* the exceptions that are timeouts, whoever catches them
TimeoutClass == {"TimeoutError", "AstroQueryTimeout"}

\* how the outcome of a call is entered in the record of a run
Class(e) == IF e \in TimeoutClass THEN "timeout" ELSE "error"

\* variant: the cache file is never seen
ExistsNever(files, path) == FALSE

\* os.path.exists(path)
Exists(files, path) == path \in DOMAIN files

\* variant: no else branch
ValidColorModeAny(m) == TRUE

\* COLOR_MODE == 'grayscale' / elif COLOR_MODE == 'false_color'
ValidColorMode(m) == m = "grayscale" \/ m = "false_color"

(* ----------------------- observation filtering ------------------------ *)

Rows == [obs_collection : {"JWST", "HST"},
         dataproduct_type : {"image", "spectrum"},
         instrument_name : {"NIRCAM", "MIRI"}]

OptionalColumns == {"dataproduct_type", "instrument_name"}

SeqsUpTo(S, n) == UNION {[1..k -> S] : k \in 0..n}

\* query results: the rows and the optional columns the table carries
Tables(n) == [rows : SeqsUpTo(Rows, n), colnames : SUBSET OptionalColumns]

IsJWST(r) == r.obs_collection = "JWST"

IsImage(r) == r.dataproduct_type = "image"

IsNIRCAM(r) == r.instrument_name = "NIRCAM"

\* obs_table[obs_table['obs_collection'] == 'JWST']
FilterCollection(rows) == SelectSeq(rows, IsJWST)

\* variant: the image rows only when there are any
FilterTypeIfAny(rows, colnames) ==
  IF "dataproduct_type" \in colnames /\ Len(SelectSeq(rows, IsImage)) > 0
  THEN SelectSeq(rows, IsImage)
  ELSE rows

\* if 'dataproduct_type' in jwst_obs.colnames: keep the images
FilterType(rows, colnames) ==
  IF "dataproduct_type" \in colnames THEN SelectSeq(rows, IsImage) ELSE rows

\* if 'instrument_name' in jwst_obs.colnames: NIRCAM rows, when there are any
FilterInstrument(rows, colnames) ==
  IF "instrument_name" \in colnames
  THEN LET nircam_obs == SelectSeq(rows, IsNIRCAM)
       IN IF Len(nircam_obs) > 0 THEN nircam_obs ELSE rows
  ELSE rows

FilterObs(tab) ==
  FilterInstrument(FilterType(FilterCollection(tab.rows), tab.colnames), tab.colnames)

(* ------------------------------ state --------------------------------- *)

\* the events of a run, in the order they happen
Ev(op, res) == [op |-> op, res |-> res]

NetworkOps == {"query", "list", "download", "sleep"}

FileOps == {"exists", "rename", "open"}

\* the script before its n-th invocation has read anything
Fresh(n) ==
  [pc |-> "idle", runs |-> n, target |-> NoPath, attempt |-> 0, retry_delay |-> 0,
   jwst_obs |-> <<>>, fits_path |-> NoPath, err |-> "none", fatal |-> "none",
   hit |-> "unchecked", sleeps |-> <<>>, log |-> <<>>]

NoTable == [rows |-> <<>>, colnames |-> {}]

FilterIdle ==
  /\ f_pc = "off"
  /\ f_table = NoTable
  /\ f_obs = <<>>

Init ==
  /\ COLOR_MODE \in ColorModes
  /\ fs = <<>>
  /\ st = Fresh(0)
  /\ other = NoPath
  /\ FilterIdle

Logged(s, op, res) == [s EXCEPT !.log = Append(@, Ev(op, res))]

(* ----------------------------- a run ---------------------------------- *)

\* the prompt and TARGETS[target_key]['name']
Launch ==
  /\ st.pc \in {"idle", "done", "fatal"}
  /\ st.runs < MaxRuns
  /\ \E s \in Inputs :
       LET k == target_key(s)
           s0 == Fresh(st.runs + 1)
       IN IF k \in DOMAIN TARGETS
          THEN st' = [s0 EXCEPT !.pc = "check", !.target = TARGETS[k].name]
          ELSE st' = [s0 EXCEPT !.pc = "fatal", !.fatal = "KeyError"]
  /\ UNCHANGED <<COLOR_MODE, fs, other, f_pc, f_table, f_obs>>

\* variant: the query is not in an else branch
CheckCacheFallThrough ==
  /\ st.pc = "check"
  /\ LET path == cache_file(st.target)
     IN IF Exists(fs, path)
        THEN st' = [Logged(st, "exists", "hit") EXCEPT
                      !.pc = "query", !.hit = "hit", !.fits_path = path,
                      !.attempt = 0, !.retry_delay = initial_retry_delay]
        ELSE st' = [Logged(st, "exists", "miss") EXCEPT
                      !.pc = "query", !.hit = "miss",
                      !.attempt = 0, !.retry_delay = initial_retry_delay]
  /\ UNCHANGED <<COLOR_MODE, fs, other, f_pc, f_table, f_obs>>

\* if os.path.exists(cache_file): fits_path = cache_file, else start querying
CheckCache ==
  /\ st.pc = "check"
  /\ LET path == cache_file(st.target)
     IN IF Exists(fs, path)
        THEN st' = [Logged(st, "exists", "hit") EXCEPT
                      !.pc = "open", !.hit = "hit", !.fits_path = path]
        ELSE st' = [Logged(st, "exists", "miss") EXCEPT
                      !.pc = "query", !.hit = "miss",
                      !.attempt = 0, !.retry_delay = initial_retry_delay]
  /\ UNCHANGED <<COLOR_MODE, fs, other, f_pc, f_table, f_obs>>

\* variant: attempt <= max_retries
OnTimeoutOneMore(s) ==
  LET a == s.attempt + 1
  IN IF a <= max_retries
     THEN [Logged(s, "sleep", "ok") EXCEPT
             !.attempt = a, !.sleeps = Append(@, s.retry_delay),
             !.retry_delay = Backoff(s.retry_delay), !.pc = "query"]
     ELSE [s EXCEPT !.attempt = a, !.err = "TimeoutError", !.pc = "except"]

\* the inner handler: count the attempt, then sleep and double, or give up
OnTimeout(s) ==
  LET a == s.attempt + 1
  IN IF a < max_retries
     THEN [Logged(s, "sleep", "ok") EXCEPT
             !.attempt = a, !.sleeps = Append(@, s.retry_delay),
             !.retry_delay = Backoff(s.retry_delay), !.pc = "query"]
     ELSE [s EXCEPT !.attempt = a, !.err = "TimeoutError", !.pc = "except"]

\* query_object raises a timeout
QueryTimeout ==
  /\ st.pc = "query"
  /\ st.attempt < max_retries
  /\ \E e \in Exceptions :
       /\ IsTimeout(e)
       /\ st' = OnTimeout(Logged(st, "query", Class(e)))
  /\ UNCHANGED <<COLOR_MODE, fs, other, f_pc, f_table, f_obs>>

\* query_object raises anything else: the outer handler takes it
QueryError ==
  /\ st.pc = "query"
  /\ st.attempt < max_retries
  /\ \E e \in Exceptions :
       /\ ~IsTimeout(e)
       /\ st' = [Logged(st, "query", Class(e)) EXCEPT !.err = e, !.pc = "except"]
  /\ UNCHANGED <<COLOR_MODE, fs, other, f_pc, f_table, f_obs>>

\* the tables a query of a run returns
QueryResults == Tables(MaxQueryRows)

\* variant: an empty result counts as a failed attempt
AfterLoopRetry(s) ==
  IF Len(s.jwst_obs) > 0
  THEN [s EXCEPT !.pc = "list"]
  ELSE IF s.attempt + 1 < max_retries
       THEN [s EXCEPT !.attempt = @ + 1, !.pc = "query"]
       ELSE [s EXCEPT !.err = "ValueError: observations", !.pc = "except"]

\* what follows the loop: if len(jwst_obs) > 0 ... else raise ValueError
AfterLoop(s) ==
  IF Len(s.jwst_obs) > 0
  THEN [s EXCEPT !.pc = "list"]
  ELSE [s EXCEPT !.err = "ValueError: observations", !.pc = "except"]

\* query_object returns: filter, break, count the observations
QueryOk ==
  /\ st.pc = "query"
  /\ st.attempt < max_retries
  /\ \E tab \in QueryResults :
       st' = AfterLoop([Logged(st, "query", "ok") EXCEPT !.jwst_obs = FilterObs(tab)])
  /\ UNCHANGED <<COLOR_MODE, fs, other, f_pc, f_table, f_obs>>

\* numbers of calibrated FITS products filter_products may leave
CalibCounts == {0, 1, 2}

\* variant: the call is inside the retry loop
RaisedRetry(s, op, e) ==
  IF s.attempt + 1 < max_retries
  THEN [Logged(s, op, Class(e)) EXCEPT !.attempt = @ + 1, !.pc = "query"]
  ELSE [Logged(s, op, Class(e)) EXCEPT !.err = e, !.pc = "except"]

\* an exception of a call outside the retry loop: the outer handler takes it
Raised(s, op, e) == [Logged(s, op, Class(e)) EXCEPT !.err = e, !.pc = "except"]

\* get_product_list(jwst_obs[0]) and filter_products(...)
ListProducts ==
  /\ st.pc = "list"
  /\ \/ \E n \in CalibCounts :
          IF n > 0
          THEN st' = [Logged(st, "list", "ok") EXCEPT !.pc = "download"]
          ELSE st' = [Logged(st, "list", "empty") EXCEPT
                        !.err = "ValueError: products", !.pc = "except"]
     \/ \E e \in Exceptions : st' = Raised(st, "list", e)
  /\ UNCHANGED <<COLOR_MODE, fs, other, f_pc, f_table, f_obs>>

\* download_products(calib_products[:1]); fits_path = its local path
Download ==
  /\ st.pc = "download"
  /\ \/ st' = [Logged(st, "download", "ok") EXCEPT !.fits_path = LocalPath, !.pc = "rename"]
     \/ \E e \in Exceptions : st' = Raised(st, "download", e)
  /\ UNCHANGED <<COLOR_MODE, fs, other, f_pc, f_table, f_obs>>

\* a file in the cache directory: who put it there, for which target
Content(by, run, target) == [by |-> by, run |-> run, target |-> target]

\* os.rename(src, dst) moves the file; POSIX replaces an existing destination
Moved(files, path, content) == (path :> content) @@ files

\* os.makedirs(cache_dir); os.rename(fits_path, cache_file); fits_path = cache_file,
\* or one of the two calls raises OSError
Rename ==
  /\ st.pc = "rename"
  /\ LET path == cache_file(st.target)
     IN \/ /\ fs' = Moved(fs, path, Content("self", st.runs, st.target))
           /\ st' = [Logged(st, "rename", "ok") EXCEPT !.fits_path = path, !.pc = "open"]
        \/ /\ st' = Raised(st, "rename", "OSError")
           /\ UNCHANGED fs
  /\ UNCHANGED <<COLOR_MODE, other, f_pc, f_table, f_obs>>

\* variant: the else branch does not raise
ExceptNoRaise ==
  /\ st.pc = "except"
  /\ LET path == cache_file(st.target)
     IN IF Exists(fs, path)
        THEN st' = [Logged(st, "exists", "hit") EXCEPT !.fits_path = path, !.pc = "open"]
        ELSE st' = [Logged(st, "exists", "miss") EXCEPT !.pc = "open"]
  /\ UNCHANGED <<COLOR_MODE, fs, other, f_pc, f_table, f_obs>>

\* except Exception: the cache file if there is one, else raise
Except ==
  /\ st.pc = "except"
  /\ LET path == cache_file(st.target)
     IN IF Exists(fs, path)
        THEN st' = [Logged(st, "exists", "hit") EXCEPT !.fits_path = path, !.pc = "open"]
        ELSE st' = [Logged(st, "exists", "miss") EXCEPT !.fatal = "Exception", !.pc = "fatal"]
  /\ UNCHANGED <<COLOR_MODE, fs, other, f_pc, f_table, f_obs>>

\* hdu = fits.open(fits_path), data and wcs of extension 1
OpenFits ==
  /\ st.pc = "open"
  /\ st' = [Logged(st, "open", "ok") EXCEPT !.pc = "stretch"]
  /\ UNCHANGED <<COLOR_MODE, fs, other, f_pc, f_table, f_obs>>

\* the COLOR_MODE branches of the contrast stretch
Stretch ==
  /\ st.pc = "stretch"
  /\ IF ValidColorMode(COLOR_MODE)
     THEN st' = [st EXCEPT !.pc = "display"]
     ELSE st' = [st EXCEPT !.fatal = "ValueError: COLOR_MODE", !.pc = "fatal"]
  /\ UNCHANGED <<COLOR_MODE, fs, other, f_pc, f_table, f_obs>>

\* the two panels, the scale bar and plt.show()
Display ==
  /\ st.pc = "display"
  /\ st' = [Logged(st, "show", "ok") EXCEPT
              !.pc = IF PERFORM_SOURCE_DETECTION THEN "detect" ELSE "done"]
  /\ UNCHANGED <<COLOR_MODE, fs, other, f_pc, f_table, f_obs>>

\* source detection, its figure, and the release of the data
Detect ==
  /\ st.pc = "detect"
  /\ st' = [Logged(st, "detect", "ok") EXCEPT !.pc = "done"]
  /\ UNCHANGED <<COLOR_MODE, fs, other, f_pc, f_table, f_obs>>

(* ---------------------- the concurrent instance ----------------------- *)

\* the names the prompt can select
UserTargets == {TARGETS[target_key(s)].name : s \in {i \in Inputs : target_key(i) \in DOMAIN TARGETS}}

\* its cache check finds no file for its target: it goes on to fetch it
OtherCheck ==
  /\ other = NoPath
  /\ \E t \in UserTargets :
       /\ ~Exists(fs, cache_file(t))
       /\ other' = t
  /\ UNCHANGED <<COLOR_MODE, fs, st, f_pc, f_table, f_obs>>

\* it renames its download into the cache, and goes on to presentation
OtherRename ==
  /\ other # NoPath
  /\ fs' = Moved(fs, cache_file(other), Content("other", 0, other))
  /\ other' = NoPath
  /\ UNCHANGED <<COLOR_MODE, st, f_pc, f_table, f_obs>>

Next ==
  \/ Launch
  \/ CheckCache
  \/ QueryTimeout
  \/ QueryError
  \/ QueryOk
  \/ ListProducts
  \/ Download
  \/ Rename
  \/ Except
  \/ OpenFits
  \/ Stretch
  \/ Display
  \/ Detect
  \/ OtherCheck
  \/ OtherRename

Spec == Init /\ [][Next]_vars

(* ------------- the observation filter, stage by stage ----------------- *)

\* obs_table as the query returned it
FilterInit ==
  /\ COLOR_MODE = "grayscale"
  /\ fs = <<>>
  /\ st = Fresh(0)
  /\ other = NoPath
  /\ f_pc = "table"
  /\ f_table \in Tables(MaxObs)
  /\ f_obs = f_table.rows

ByCollection ==
  /\ f_pc = "table"
  /\ f_obs' = FilterCollection(f_obs)
  /\ f_pc' = "collection"
  /\ UNCHANGED <<COLOR_MODE, fs, st, other, f_table>>

ByType ==
  /\ f_pc = "collection"
  /\ f_obs' = FilterType(f_obs, f_table.colnames)
  /\ f_pc' = "type"
  /\ UNCHANGED <<COLOR_MODE, fs, st, other, f_table>>

ByInstrument ==
  /\ f_pc = "type"
  /\ f_obs' = FilterInstrument(f_obs, f_table.colnames)
  /\ f_pc' = "filtered"
  /\ UNCHANGED <<COLOR_MODE, fs, st, other, f_table>>

FilterNext == ByCollection \/ ByType \/ ByInstrument

SpecFilter == FilterInit /\ [][FilterNext]_vars

(* ------------------------- reading a run ------------------------------ *)

Log == st.log

Ops == {Log[i].op : i \in DOMAIN Log}

IsQueryEv(e) == e.op = "query"

\* the query attempts of the run, in order
QSeq == SelectSeq(Log, IsQueryEv)

TimedOutFirst(n) == Len(QSeq) >= n /\ \A i \in 1..n : QSeq[i].res = "timeout"

\* the cache path of a target, written out
CachePathOf(name) ==
  <<"cached_data", "/">> \o [i \in 1..Len(name) |-> IF name[i] = " " THEN "_" ELSE name[i]]
    \o <<".fits">>

PresentationPcs == {"open", "stretch", "display", "detect", "done"}

\* the run is in presentation, or presentation ended it
InPresentation ==
  \/ st.pc \in PresentationPcs
  \/ st.pc = "fatal" /\ st.fatal = "ValueError: COLOR_MODE"

\* the positions at which the outer handler looked for the cache file
HandlerIdx == {i \in DOMAIN Log : i > 1 /\ Log[i].op = "exists"}

\* what the outer handler did, once it has run
HandledAsDesigned ==
  \A h \in HandlerIdx :
    IF Log[h].res = "hit"
    THEN /\ st.fits_path = CachePathOf(st.target)
         /\ InPresentation
    ELSE /\ st.pc = "fatal"
         /\ st.fatal = "Exception"
         /\ st.fits_path # CachePathOf(st.target)
         /\ Ops \cap {"open", "show", "detect"} = {}

(* ------------------------------ claims -------------------------------- *)

\* C1: a run whose cache check finds the file makes no network call (no query,
\* no listing, no download, no sleep), renames nothing, and hands exactly the
\* cache path of its target to presentation.
C1_CacheHitNoNetwork ==
  st.hit = "hit" =>
    /\ Log[1] = Ev("exists", "hit")
    /\ Ops \cap (NetworkOps \cup {"rename"}) = {}
    /\ st.sleeps = <<>>
    /\ st.fits_path = CachePathOf(st.target)
    /\ st.fits_path \in DOMAIN fs
    /\ InPresentation

C1_Witness == st.hit = "hit" /\ "open" \in Ops /\ st.pc = "done"

\* C2 as stated: after three consecutive timed-out query attempts of a run
\* without cache entry the run has waited 5, 10 and 20 and makes a fourth attempt.
C2_FourAttempts ==
  (st.hit = "miss" /\ TimedOutFirst(3)) =>
    /\ st.sleeps = <<5, 10, 20>>
    /\ (st.pc = "query" \/ Len(QSeq) >= 4)

\* C2 amended: two consecutive timeouts followed by a success are exactly three
\* attempts with waits 5 and 10 between them, and the run goes on to product
\* selection; a third consecutive timeout ends the loop with TimeoutError after
\* the waits 5 and 10 only, without a fourth attempt.
C2_ThreeAttempts ==
  /\ (st.hit = "miss" /\ TimedOutFirst(2) /\ Len(QSeq) >= 3 /\ QSeq[3].res = "ok") =>
       /\ Len(QSeq) = 3
       /\ st.sleeps = <<5, 10>>
       /\ [i \in 1..6 |-> Log[i].op]
            = <<"exists", "query", "sleep", "query", "sleep", "query">>
       /\ st.pc # "query"
       /\ Len(Log) = 6 =>
            \/ st.pc = "list" /\ Len(st.jwst_obs) > 0
            \/ st.pc = "except" /\ st.err = "ValueError: observations" /\ st.jwst_obs = <<>>
       /\ Len(Log) > 6 => Log[7].op \in {"list", "exists"}
  /\ (st.hit = "miss" /\ TimedOutFirst(3)) =>
       /\ Len(QSeq) = 3
       /\ st.sleeps = <<5, 10>>
       /\ st.pc # "query"
       /\ st.err = "TimeoutError"
       /\ Ops \cap {"list", "download", "rename"} = {}

C2_Witness ==
  /\ st.hit = "miss"
  /\ TimedOutFirst(2)
  /\ Len(QSeq) = 3
  /\ QSeq[3].res = "ok"
  /\ st.pc = "list"

\* C3: a run without cache entry makes at most 3 query attempts; its first wait
\* is 5, every later wait is twice the one before; a wait directly follows a
\* timed-out attempt and is followed by another attempt.
C3_BoundedBackoff ==
  /\ Len(QSeq) <= 3
  /\ Len(QSeq) > 0 => st.hit = "miss"
  /\ Len(st.sleeps) > 0 => st.sleeps[1] = 5
  /\ \A i \in 2..Len(st.sleeps) : st.sleeps[i] = 2 * st.sleeps[i - 1]
  /\ Cardinality({i \in DOMAIN Log : Log[i].op = "sleep"}) = Len(st.sleeps)
  /\ \A i \in DOMAIN Log :
       Log[i].op = "sleep" =>
         /\ i > 1
         /\ Log[i - 1] = Ev("query", "timeout")
         /\ IF i < Len(Log) THEN Log[i + 1].op = "query" ELSE st.pc = "query"

C3_Witness == Len(st.sleeps) = 2 /\ Len(QSeq) = 3 /\ st.pc = "download"

\* C4: three consecutive query timeouts, no cache entry at the check and none
\* when the failure is handled: the run ends in a fatal error, no path is
\* returned, the file is never opened and nothing is presented.
C4_TimeoutsFatal ==
  (/\ st.hit = "miss"
   /\ TimedOutFirst(3)
   /\ Log[Len(Log)] = Ev("exists", "miss")) =>
    /\ st.pc = "fatal"
    /\ st.fatal = "Exception"
    /\ st.fits_path = NoPath
    /\ Ops = {"exists", "query", "sleep"}

C4_Witness ==
  /\ st.hit = "miss"
  /\ TimedOutFirst(3)
  /\ Log[Len(Log)] = Ev("exists", "miss")
  /\ st.pc = "fatal"

\* the successful query left no observation / the listing left no calibrated product
NoObservations == Ev("query", "ok") \in {Log[i] : i \in DOMAIN Log} /\ st.jwst_obs = <<>>

NoProducts == Ev("list", "empty") \in {Log[i] : i \in DOMAIN Log}

\* C5 as stated: a query that succeeds with no observation, or a first
\* observation without calibrated product, ends the run in a fatal error,
\* with one attempt for that success, no wait after it and no download.
C5_NoDataFatal ==
  ((NoObservations \/ NoProducts) /\ st.pc # "except") =>
    /\ st.pc = "fatal"
    /\ Cardinality({i \in DOMAIN Log : Log[i] = Ev("query", "ok")}) = 1
    /\ "download" \notin Ops

\* C5 amended: the ValueError is raised without retrying (one attempt for that
\* success, no wait, no further query, no download, no rename); it ends the run
\* as a fatal error unless the cache file of the target exists when the error
\* is handled, and then the run goes on with the cache path.
C5_NoDataNotRetried ==
  (NoObservations \/ NoProducts) =>
    /\ st.err = IF NoProducts THEN "ValueError: products" ELSE "ValueError: observations"
    /\ Cardinality({i \in DOMAIN Log : Log[i] = Ev("query", "ok")}) = 1
    /\ QSeq[Len(QSeq)].res = "ok"
    /\ \A i \in DOMAIN Log :
         Log[i] = Ev("query", "ok") =>
           \A j \in (i + 1)..Len(Log) : Log[j].op \in {"list", "exists", "open", "show", "detect"}
    /\ NoObservations => "list" \notin Ops
    /\ Cardinality({i \in DOMAIN Log : Log[i].op = "list"}) <= 1
    /\ Ops \cap {"download", "rename"} = {}
    /\ IF HandlerIdx = {} THEN st.pc = "except" ELSE HandledAsDesigned

C5_Witness == NoObservations /\ Len(st.sleeps) = 1 /\ st.pc = "fatal"

\* C6 as stated: with a color mode other than 'grayscale' and 'false_color'
\* no network call and no file I/O ever happens in a run.
C6_ModeCheckedFirst ==
  COLOR_MODE \notin {"grayscale", "false_color"} => Ops \cap (NetworkOps \cup FileOps) = {}

\* C6 amended: with such a color mode the run ends in a fatal ValueError right
\* after acquisition has returned a path and the image file has been opened,
\* before anything is displayed or detected; that error is raised for no other
\* color mode.
C6_ModeCheckedAfterOpen ==
  /\ st.fatal = "ValueError: COLOR_MODE" =>
       /\ COLOR_MODE \notin {"grayscale", "false_color"}
       /\ Log[1].op = "exists"
       /\ Log[Len(Log)].op = "open"
       /\ st.fits_path = CachePathOf(st.target)
  /\ COLOR_MODE \notin {"grayscale", "false_color"} =>
       /\ Ops \cap {"show", "detect"} = {}
       /\ st.pc \notin {"display", "detect", "done"}
       /\ ("open" \in Ops /\ st.pc # "stretch") => st.fatal = "ValueError: COLOR_MODE"

C6_Witness == st.fatal = "ValueError: COLOR_MODE" /\ "download" \in Ops

\* C7 as stated: each of the product-type and instrument stages is applied only
\* when its result is not empty, so the result is empty only when there is no
\* JWST row.
C7_NarrowestNonEmpty ==
  f_pc = "filtered" =>
    LET cols == f_table.colnames
        c == SelectSeq(f_table.rows, IsJWST)
        t0 == SelectSeq(c, IsImage)
        t == IF "dataproduct_type" \in cols /\ t0 # <<>> THEN t0 ELSE c
        n0 == SelectSeq(t, IsNIRCAM)
        n == IF "instrument_name" \in cols /\ n0 # <<>> THEN n0 ELSE t
    IN /\ f_obs = n
       /\ f_obs = <<>> <=> c = <<>>

\* C7 amended: the product-type stage is applied whenever the table has that
\* column, also when it leaves nothing; only the instrument stage is skipped
\* when it would leave nothing.  The result is the NIRCAM rows among the JWST
\* image rows when there are any, else the JWST image rows, and it is empty
\* exactly when there is no JWST image row.
C7_TypeAlwaysApplied ==
  f_pc = "filtered" =>
    LET cols == f_table.colnames
        JwstImage(r) ==
          /\ r.obs_collection = "JWST"
          /\ "dataproduct_type" \in cols => r.dataproduct_type = "image"
        JwstImageNircam(r) == JwstImage(r) /\ r.instrument_name = "NIRCAM"
        base == SelectSeq(f_table.rows, JwstImage)
        narrow == SelectSeq(f_table.rows, JwstImageNircam)
    IN /\ f_obs = IF "instrument_name" \in cols /\ narrow # <<>> THEN narrow ELSE base
       /\ f_obs = <<>> <=> base = <<>>

C7_Witness ==
  /\ f_pc = "filtered"
  /\ f_obs = <<>>
  /\ \E i \in DOMAIN f_table.rows : f_table.rows[i].obs_collection = "JWST"

\* C8 as stated: the error handler of acquisition is reached with a timeout
\* only when 3 attempts have been made, whatever call timed out.
C8_EveryTimeoutRetried ==
  (st.pc = "except" /\ Log[Len(Log)].res = "timeout") => Len(QSeq) >= 3

\* C8 amended: a timed-out catalog query that is the first or second attempt is
\* followed by a wait and another attempt; the third one ends the loop with
\* TimeoutError.  A timeout of the product listing or of the download is not
\* retried: the outer handler takes it like any other error.
C8_QueryTimeoutRetried ==
  /\ \A i \in DOMAIN Log :
       Log[i] = Ev("query", "timeout") =>
         IF Cardinality({j \in 1..i : Log[j].op = "query"}) < 3
         THEN /\ i < Len(Log)
              /\ Log[i + 1].op = "sleep"
              /\ IF i + 1 < Len(Log) THEN Log[i + 2].op = "query" ELSE st.pc = "query"
         ELSE /\ st.err = "TimeoutError"
              /\ IF i = Len(Log) THEN st.pc = "except" ELSE Log[i + 1].op = "exists"
  /\ \A i \in DOMAIN Log :
       (Log[i].op \in {"list", "download"} /\ Log[i].res = "timeout") =>
         /\ st.err \in {"TimeoutError", "AstroQueryTimeout"}
         /\ IF i = Len(Log) THEN st.pc = "except" ELSE Log[i + 1].op = "exists"
         /\ IF HandlerIdx = {} THEN st.pc = "except" ELSE HandledAsDesigned

C8_Witness ==
  /\ Len(QSeq) = 2
  /\ QSeq[1].res = "timeout"
  /\ "download" \in Ops
  /\ Log[Len(Log) - 1] = Ev("download", "timeout")
  /\ st.pc = "fatal"

\* C9: an error that is no timeout, in the query, the listing, the download or
\* the rename, is followed by no further attempt; the cache file existing when
\* the handler runs, the run goes on to presentation with the cache path,
\* otherwise it ends in a fatal error.
C9_OtherErrorsFallBack ==
  \A i \in DOMAIN Log :
    Log[i].res = "error" =>
      /\ Log[i].op \in {"query", "list", "download", "rename"}
      /\ st.err \in {"ConnectionError", "OSError"}
      /\ \A j \in (i + 1)..Len(Log) : Log[j].op \in {"exists", "open", "show", "detect"}
      /\ IF i = Len(Log) THEN st.pc = "except" ELSE Log[i + 1].op = "exists"
      /\ IF HandlerIdx = {} THEN st.pc = "except" ELSE HandledAsDesigned

C9_Witness ==
  /\ Len(Log) > 3
  /\ \E i \in 1..(Len(Log) - 1) :
       /\ Log[i] = Ev("query", "error")
       /\ Log[i + 1] = Ev("exists", "hit")
  /\ st.pc = "done"

\* C10: a file in the cache is never removed; a run writes to the cache only by
\* the rename of its download to the cache path of its own target, and only
\* when its cache check found no file there; the file an earlier run of the
\* user cached is never replaced by a later one; every cache file is at the
\* path derived from the name of its target, one per target.
C10_CacheFilesKept ==
  [][/\ DOMAIN fs \subseteq DOMAIN fs'
     /\ \A f \in DOMAIN fs' :
          ((f \notin DOMAIN fs \/ fs'[f] # fs[f]) /\ fs'[f].by = "self") =>
            /\ st.hit = "miss"
            /\ st.pc = "rename"
            /\ Log[Len(Log)] = Ev("download", "ok")
            /\ fs'[f].target = st.target
            /\ st'.fits_path = f
     /\ \A f \in DOMAIN fs : (fs[f].by = "self" /\ fs'[f].by = "self") => fs'[f] = fs[f]
     /\ \A f \in DOMAIN fs' : f = CachePathOf(fs'[f].target)
     /\ \A f, g \in DOMAIN fs' : fs'[f].target = fs'[g].target => f = g
    ]_vars

C10_Witness ==
  /\ st.hit = "hit"
  /\ st.pc = "done"
  /\ st.fits_path \in DOMAIN fs
  /\ fs[st.fits_path].by = "self"
  /\ fs[st.fits_path].run < st.runs

====
